---- MODULE Spec2Model ----
(***************************************************************************)
(* Model of integrity/check.py: the dataset integrity audit check(data),   *)
(* its six check groups and the logging assertion primitives.              *)
(*                                                                         *)
(* Numbers.  Real-valued statistics are fixed-point integers in units of   *)
(* 1e-4 (0.18 is 1800, 0.551 is 5510); counts (duplicate ids, eras, rows)  *)
(* are plain integers.  NaN is a distinguished value for which every       *)
(* ordering comparison is false, as for IEEE floats.                       *)
(*                                                                         *)
(* Log.  `log` is the sequence of lines handed to the logging module, each *)
(* a record [level, message, value, cmp, bound]; `message` is a record     *)
(* [fmt, region, era, feature, diff] holding the format text and the       *)
(* values substituted into it.                                             *)
(*                                                                         *)
(* Two specifications share the variables:                                 *)
(*   Spec      a run of check(data) over a bounded family of datasets,     *)
(*   PrimSpec  a direct call of one of interval, array_interval, _assert.  *)
(***************************************************************************)
EXTENDS Integers, Sequences, FiniteSets, TLC

VARIABLES data, args, pc, log, raised

vars == <<data, args, pc, log, raised>>

\* ------------------------------------------------------------------------
\* Bounds of the model

\* largest number of further rows appended to the identifier column data.ID
MaxRows == 3
\* number of feature columns of data.x
NumFeatures == 2
\* longest array handed to array_interval in PrimSpec
MaxArr == 2

\* ------------------------------------------------------------------------
\* Values

NaN == 10 ^ 9

\* float comparisons: false as soon as one side is NaN
Lt(a, b) == a # NaN /\ b # NaN /\ a < b
Gt(a, b) == a # NaN /\ b # NaN /\ a > b
Le(a, b) == a # NaN /\ b # NaN /\ a <= b
Ge(a, b) == a # NaN /\ b # NaN /\ a >= b
Eq(a, b) == a # NaN /\ b # NaN /\ a = b
Ne(a, b) == ~Eq(a, b)

NoError == "none"

\* outcome of a call: the exception it raised (NoError when it returned) and
\* the lines it logged before that
Result(exc, lines) == [raised |-> exc, lines |-> lines]

\* r1 ; r2  -- r2 is not run when r1 raised
Then(r1, r2) ==
    IF r1.raised # NoError THEN r1
    ELSE Result(r2.raised, r1.lines \o r2.lines)

Msg(fmt, region, era, feature) ==
    [fmt |-> fmt, region |-> region, era |-> era, feature |-> feature, diff |-> {}]

M(fmt) == Msg(fmt, "", -1, -1)

Line(level, message, value, cmp, bound) ==
    [level |-> level, message |-> message, value |-> value, cmp |-> cmp,
     bound |-> bound]

\* ------------------------------------------------------------------------
\* logging utilities (check.py 189-248)

get_logger(level) ==
    IF level = "info" THEN [raised |-> NoError, log |-> "info"]
    ELSE IF level = "warn" THEN [raised |-> NoError, log |-> "warn"]
    ELSE IF level = "error" THEN [raised |-> NoError, log |-> "error"]
    ELSE IF level = "critical" THEN [raised |-> NoError, log |-> "critical"]
    ELSE [raised |-> "ValueError", log |-> ""]

\* mutant of interval: the bounds are taken as exclusive
interval_strict(message, value, limit, level) ==
    IF Le(value, limit[1]) \/ Ge(value, limit[2])
    THEN Result(NoError, <<Line(level, message, <<value>>, "not in", limit)>>)
    ELSE Result(NoError, <<>>)

interval(message, value, limit, level) ==
    IF Lt(value, limit[1]) \/ Gt(value, limit[2])
    THEN LET lg == get_logger(level) IN
         IF lg.raised # NoError THEN Result(lg.raised, <<>>)
         ELSE Result(NoError, <<Line(lg.log, message, <<value>>, "not in", limit)>>)
    ELSE Result(NoError, <<>>)

RECURSIVE ArrMin(_)
\* arr.min() of a non-empty array; NaN as soon as one element is NaN
ArrMin(arr) ==
    IF Len(arr) = 1 THEN arr[1]
    ELSE LET m == ArrMin(Tail(arr)) IN
         IF arr[1] = NaN \/ m = NaN THEN NaN
         ELSE IF arr[1] < m THEN arr[1] ELSE m

RECURSIVE ArrMax(_)
ArrMax(arr) ==
    IF Len(arr) = 1 THEN arr[1]
    ELSE LET m == ArrMax(Tail(arr)) IN
         IF arr[1] = NaN \/ m = NaN THEN NaN
         ELSE IF arr[1] > m THEN arr[1] ELSE m

\* mutant of array_interval: only the minimum is compared
array_interval_minonly(message, arr, limit, level) ==
    IF Len(arr) = 0 THEN Result("ValueError", <<>>)
    ELSE IF Lt(ArrMin(arr), limit[1])
    THEN Result(NoError,
                <<Line(level, message, <<ArrMin(arr), ArrMax(arr)>>, "not in", limit)>>)
    ELSE Result(NoError, <<>>)

array_interval(message, arr, limit, level) ==
    IF Len(arr) = 0
    THEN \* arr.min() of a zero-size array
         Result("ValueError", <<>>)
    ELSE LET amin == ArrMin(arr)
             amax == ArrMax(arr) IN
         IF Lt(amin, limit[1]) \/ Gt(amax, limit[2])
         THEN LET lg == get_logger(level) IN
              IF lg.raised # NoError THEN Result(lg.raised, <<>>)
              ELSE Result(NoError,
                          <<Line(lg.log, message, <<amin, amax>>, "not in", limit)>>)
         ELSE Result(NoError, <<>>)

oppo ==
    [x \in {"==", "!=", ">", "<=", "<", ">="} |->
        CASE x = "==" -> "!="
          [] x = "!=" -> "=="
          [] x = ">"  -> "<="
          [] x = "<=" -> ">"
          [] x = "<"  -> ">="
          [] x = ">=" -> "<"]

\* the if/elif chain of _assert: <<bound, failed>>; for '>=' no branch is
\* taken (the last elif tests '<=' a second time) and `failed` stays unbound
Failed(value, op, target) ==
    IF op = "==" THEN <<TRUE, Ne(value, target)>>
    ELSE IF op = "!=" THEN <<TRUE, Eq(value, target)>>
    ELSE IF op = ">" THEN <<TRUE, Le(value, target)>>
    ELSE IF op = "<=" THEN <<TRUE, Gt(value, target)>>
    ELSE IF op = "<" THEN <<TRUE, Ge(value, target)>>
    ELSE IF op = "<=" THEN <<TRUE, Lt(value, target)>>
    ELSE <<FALSE, FALSE>>

_assert(message, value, op, target, level) ==
    IF op \notin DOMAIN oppo THEN Result("ValueError", <<>>)
    ELSE LET f == Failed(value, op, target) IN
         IF ~f[1] THEN Result("UnboundLocalError", <<>>)
         ELSE IF f[2]
         THEN LET lg == get_logger(level) IN
              IF lg.raised # NoError THEN Result(lg.raised, <<>>)
              ELSE Result(NoError,
                          <<Line(lg.log, message, <<value>>, oppo[op], <<target>>)>>)
         ELSE Result(NoError, <<>>)

\* ------------------------------------------------------------------------
\* The dataset, as check() observes it.
\*
\*   ID         data.ID, the identifier column
\*   rows       the distinct (region, era) pairs of the rows, from data.region
\*              and data.era; era 0 is the era 'eraX', era k > 0 an ordinary one
\*   nonfinite  per region label, the number of non-finite cells of data.x
\*   corr       <<mean, max>> of the absolute upper-triangle correlations
\*   feat       per (era, feature) block of era_feature_iter(): the array x
\*              and its mean, std, skewness and kurtosis; blocks not listed
\*              hold CleanFeat
\*   lab        bad: per region label, the number of non-missing labels that
\*              are neither 0 nor 1;
\*              period: eras whose number is a multiple of it have a label
\*              mean just below one half, the others just above;
\*              eras: per-era [mean, size] of the labels where they differ
\*              (a mean of NaN: the era holds a non-finite label; a mean of
\*              0 or 10000: it holds one label class only)
\*   pred       classes: the label classes of the train rows; the log-loss
\*              and consistency of the fitted classifier on train and
\*              validation; its predictions yhat_train and yhat per region
\*
\* Statistics the code obtains by floating-point computation (correlation,
\* moments, the classifier and its log-loss) are values of the dataset here,
\* and so is the number of labels of an era: the rows are enumerated only as
\* far as ids, eras and regions read them.

EraX == 0

ExpectedRegions == {"train", "validation", "test", "live"}

RegionLabels == ExpectedRegions \cup {"holdout"}

Present(d, region) == \E p \in d.rows : p[1] = region

\* mutant of ErasIn: the eras are not restricted to the region
ErasIn_any(d, region) == {p[2] : p \in d.rows}

\* np.unique(data.era[data.region == region])
ErasIn(d, region) == {p[2] : p \in {q \in d.rows : q[1] = region}}

\* the eras the iterators era_iter() and era_feature_iter() visit
ErasOf(d) == {p[2] : p \in d.rows}

RECURSIVE SortedSeq(_)
SortedSeq(S) ==
    IF S = {} THEN <<>>
    ELSE LET m == CHOOSE x \in S : \A y \in S : x <= y IN
         <<m>> \o SortedSeq(S \ {m})

CleanFeat ==
    [x |-> <<0, 10000>>, mean |-> 5000, std |-> 1200, skew |-> 0, kurt |-> 30000]

FeatOf(d, era, f) ==
    IF <<era, f>> \in DOMAIN d.feat THEN d.feat[<<era, f>>] ELSE CleanFeat

LabelOf(d, era) ==
    IF era \in DOMAIN d.lab.eras THEN d.lab.eras[era]
    ELSE [mean |-> IF era % d.lab.period = 0 THEN 4995 ELSE 5005,
          size |-> IF era = EraX THEN 275000 ELSE 6000]

\* ------------------------------------------------------------------------
\* The reference thresholds compiled into the check groups, in units of 1e-4
\* (the numbers of labels are counts)

limits ==
    [corr_mean |-> <<1800, 2200>>,
     corr_max |-> <<7200, 7600>>,
     feat_range |-> <<0, 10000>>,
     feat_mean |-> <<4500, 5510>>,
     feat_std |-> <<900, 1500>>,
     feat_skew |-> <<-4400, 4400>>,
     feat_kurt |-> <<24500, 35800>>,
     label_mean |-> <<4990, 5010>>,
     label_num_eraX |-> <<270000, 280000>>,
     label_num |-> <<5920, 6800>>,
     label_bias |-> <<4000, 6000>>,
     train_logloss |-> <<6910, 6930>>,
     train_consistency |-> <<5700, 8400>>,
     valid_logloss |-> <<6910, 6930>>,
     valid_consistency |-> <<5000, 8400>>]

\* ------------------------------------------------------------------------
\* ids (check.py 19-25)

\* mutant of ids: reports whether there are duplicates, not how many
ids_flag(d) ==
    LET dup == IF Len(d.ID) # Cardinality({d.ID[i] : i \in DOMAIN d.ID}) THEN 1 ELSE 0 IN
    Then(Result(NoError, <<Line("info", M("IDS"), <<>>, "", <<>>)>>),
         _assert(M("duplicate ids"), dup, "==", 0, "warn"))

ids(d) ==
    LET num_duplicate == Len(d.ID) - Cardinality({d.ID[i] : i \in DOMAIN d.ID}) IN
    Then(Result(NoError, <<Line("info", M("IDS"), <<>>, "", <<>>)>>),
         _assert(M("duplicate ids"), num_duplicate, "==", 0, "warn"))

\* ------------------------------------------------------------------------
\* eras (check.py 28-40)

eras_target == [train |-> 85, validation |-> 12, test |-> 1, live |-> 1]

\* `for region in target` iterates a dict: the regions come in the order of
\* the literal from python 3.7 on, and in an order of the interpreter's
\* choosing (fixed for a run) before that
eras_orders ==
    {o \in [1..4 -> DOMAIN eras_target] : \A i, j \in 1..4 : i # j => o[i] # o[j]}

RECURSIVE eras_loop(_, _, _)
eras_loop(d, order, i) ==
    IF i > Len(order) THEN Result(NoError, <<>>)
    ELSE LET region == order[i]
             n == Cardinality(ErasIn(d, region)) IN
         Then(_assert(Msg("number of eras in %s", region, -1, -1), n, "==",
                      eras_target[region], "warn"),
              eras_loop(d, order, i + 1))

\* mutant of eras: the marker is logged after the assertions
eras_marker_last(d, order) ==
    Then(eras_loop(d, order, 1),
         Result(NoError, <<Line("info", M("ERAS"), <<>>, "", <<>>)>>))

eras(d, order) ==
    Then(Result(NoError, <<Line("info", M("ERAS"), <<>>, "", <<>>)>>),
         eras_loop(d, order, 1))

\* ------------------------------------------------------------------------
\* regions (check.py 43-56)

\* mutant of regions: missing regions are looked for only without extra ones
regions_elif(d) ==
    LET target == {"train", "validation", "test", "live"}
        observed == {p[1] : p \in d.rows}
        extra == observed \ target
        missing == target \ observed
        warn(fmt, diff) ==
            Line("warn", [M(fmt) EXCEPT !.diff = diff], <<>>, "", <<>>)
    IN Result(NoError,
          <<Line("info", M("REGIONS"), <<>>, "", <<>>)>>
          \o (IF Cardinality(extra) > 0 THEN <<warn("extra regions found: %s", extra)>>
              ELSE IF Cardinality(missing) > 0
              THEN <<warn("missing regions: %s", missing)>> ELSE <<>>))

regions(d) ==
    LET target == {"train", "validation", "test", "live"}
        observed == {p[1] : p \in d.rows}
        extra == observed \ target
        missing == target \ observed
        warn(fmt, diff) ==
            Line("warn", [M(fmt) EXCEPT !.diff = diff], <<>>, "", <<>>)
    IN Result(NoError,
          <<Line("info", M("REGIONS"), <<>>, "", <<>>)>>
          \o (IF observed # target /\ Cardinality(extra) > 0
              THEN <<warn("extra regions found: %s", extra)>> ELSE <<>>)
          \o (IF observed # target /\ Cardinality(missing) > 0
              THEN <<warn("missing regions: %s", missing)>> ELSE <<>>))

\* ------------------------------------------------------------------------
\* features (check.py 59-92)

\* one iteration of the loop over data.era_feature_iter()
features_body(d, era, f) ==
    LET b == FeatOf(d, era, f)
        msg(fmt) == Msg(fmt, "", era, f)
    IN Then(array_interval(msg("range of feature %2d in %s"), b.x, limits.feat_range, "warn"),
       Then(interval(msg("mean  of feature %2d in %s"), b.mean, limits.feat_mean, "warn"),
       Then(interval(msg("std   of feature %2d in %s"), b.std, limits.feat_std, "warn"),
       Then(interval(msg("skewn of feature %2d in %s"), b.skew, limits.feat_skew, "warn"),
            interval(msg("kurto of feature %2d in %s"), b.kurt, limits.feat_kurt, "warn")))))

RECURSIVE features_loop(_, _, _, _)
\* iterations lo..hi of the loop, in order: block k is feature ((k-1) mod F)+1
\* of the ((k-1) div F)+1-th era (the range is halved to keep evaluation shallow)
features_loop(d, eraSeq, lo, hi) ==
    IF lo > hi THEN Result(NoError, <<>>)
    ELSE IF lo = hi
    THEN features_body(d, eraSeq[((lo - 1) \div NumFeatures) + 1],
                       ((lo - 1) % NumFeatures) + 1)
    ELSE LET mid == (lo + hi) \div 2 IN
         Then(features_loop(d, eraSeq, lo, mid),
              features_loop(d, eraSeq, mid + 1, hi))

RECURSIVE SumOver(_, _)
SumOver(f, S) ==
    IF S = {} THEN 0
    ELSE LET x == CHOOSE y \in S : TRUE IN f[x] + SumOver(f, S \ {x})

features(d) ==
    LET n == SumOver(d.nonfinite, DOMAIN d.nonfinite) IN
    Then(Result(NoError, <<Line("info", M("FEATURES"), <<>>, "", <<>>)>>),
    Then(_assert(M("nonfinite feature values"), n, "==", 0, "warn"),
    Then(interval(M("mean abs corr of features"), d.corr[1], limits.corr_mean, "warn"),
    Then(interval(M("max  abs corr of features"), d.corr[2], limits.corr_max, "warn"),
         (LET eraSeq == SortedSeq(ErasOf(d)) IN
          features_loop(d, eraSeq, 1, Len(eraSeq) * NumFeatures))))))

\* ------------------------------------------------------------------------
\* labels (check.py 95-126)

labels_body(d, era) ==
    LET l == LabelOf(d, era)
        limit == IF era = EraX THEN limits.label_num_eraX ELSE limits.label_num
    IN Then(interval(Msg("mean of labels in %s", "", era, -1), l.mean,
                     limits.label_mean, "warn"),
            interval(Msg("num  of labels in %s", "", era, -1), l.size, limit, "warn"))

RECURSIVE labels_loop(_, _, _, _)
\* iterations lo..hi of the loop over data.era_iter(), in order
labels_loop(d, eraSeq, lo, hi) ==
    IF lo > hi THEN Result(NoError, <<>>)
    ELSE IF lo = hi THEN labels_body(d, eraSeq[lo])
    ELSE LET mid == (lo + hi) \div 2 IN
         Then(labels_loop(d, eraSeq, lo, mid), labels_loop(d, eraSeq, mid + 1, hi))

\* (y_mean < 0.5).mean(): NaN for an empty y_mean.  The fraction is put on
\* the 1e-4 grid so that interval compares it with the bound as it compares
\* the exact fraction: rounded down, and up when it exceeds the upper bound
label_bias(d) ==
    LET E == ErasOf(d)
        below == {e \in E : Lt(LabelOf(d, e).mean, 5000)}
        num == Cardinality(below) * 10000
        q == num \div Cardinality(E)
    IN IF E = {} THEN NaN
       ELSE IF num % Cardinality(E) # 0 /\ q >= limits.label_bias[2] THEN q + 1
       ELSE q

labels(d) ==
    Then(Result(NoError, <<Line("info", M("LABELS"), <<>>, "", <<>>)>>),
    Then(_assert(M("number of non 0, 1 labels"), SumOver(d.lab.bad, DOMAIN d.lab.bad),
                 "==", 0, "warn"),
    Then((LET eraSeq == SortedSeq(ErasOf(d)) IN labels_loop(d, eraSeq, 1, Len(eraSeq))),
         interval(M("fraction of eras with label mean less than half"),
                  label_bias(d), limits.label_bias, "warn"))))

\* ------------------------------------------------------------------------
\* predictions (check.py 129-174)

\* a label of the region is non-finite
NanLabel(d, region) == \E e \in ErasIn(d, region) : LabelOf(d, e).mean = NaN

\* mutant of fit: a single-class train region is a logged warning
fit_soft(d) ==
    IF Present(d, "train") /\ d.nonfinite["train"] = 0 /\ ~NanLabel(d, "train")
    THEN IF Cardinality(d.pred.classes) >= 2 THEN Result(NoError, <<>>)
         ELSE Result(NoError, <<Line("warn", M("train logloss"), <<>>, "", <<>>)>>)
    ELSE Result("ValueError", <<>>)

\* clf.fit(xtrain, ytrain): the fit is refused (ValueError) for an empty
\* train region, for non-finite train features or labels and for fewer than
\* two label classes
fit(d) ==
    IF Present(d, "train") /\ d.nonfinite["train"] = 0 /\ ~NanLabel(d, "train")
       /\ Cardinality(d.pred.classes) >= 2
    THEN Result(NoError, <<>>)
    ELSE Result("ValueError", <<>>)

\* log_loss(y, yhat) of a region: refused (ValueError) when y holds a
\* non-finite label, a class besides 0 and 1, or one class only; otherwise
\* the value is the dataset's
log_loss(d, region) ==
    IF \/ NanLabel(d, region)
       \/ d.lab.bad[region] > 0
       \/ \E v \in {0, 10000} : \A e \in ErasIn(d, region) : LabelOf(d, e).mean = v
    THEN Result("ValueError", <<>>)
    ELSE Result(NoError, <<>>)

\* logloss_by_era(era, y, yhat) of a region: log_loss era by era, refused
\* (ValueError) for an era with one label class only
logloss_by_era(d, region) ==
    IF \E e \in ErasIn(d, region) : LabelOf(d, e).mean \in {0, 10000}
    THEN Result("ValueError", <<>>)
    ELSE Result(NoError, <<>>)

\* calc_yhat(region, clf, data): predict_proba refuses (ValueError) a region
\* without rows and non-finite features
calc_yhat(d, region) ==
    IF Present(d, region) /\ d.nonfinite[region] = 0
    THEN [raised |-> NoError, yhat |-> d.pred.yhat[region]]
    ELSE [raised |-> "ValueError", yhat |-> <<>>]

\* The ends of the band are products of doubles. Where 0.99 * min is a
\* value of the 1e-4 grid in exact arithmetic, the double product is the
\* double of that grid value or a neighbour of it: for these minima in
\* 0..10000 (probabilities) it is the next double above, so a prediction
\* exactly at the end of the band is below it.
low_above_grid == {2700, 5400, 8100, 9300}

\* the maxima in 0..10000 for which the double 1.01 * max is the next double
\* below the grid value, so a prediction exactly at the end is above it
high_below_grid == {2100, 4100, 4200, 4700, 8200, 8300, 8400, 8500, 9400, 9500}

\* the band [0.99 * yhat_train.min(), 1.01 * yhat_train.max()] as the
\* predictions of the 1e-4 grid meet it: the first and the last grid value
\* the double comparisons of array_interval let pass
predictions_target(d) ==
    LET lo == ArrMin(d.pred.yhat_train)
        hi == ArrMax(d.pred.yhat_train)
    IN  <<(99 * lo + 99) \div 100 + (IF lo \in low_above_grid THEN 1 ELSE 0),
          (101 * hi) \div 100 - (IF hi \in high_below_grid THEN 1 ELSE 0)>>

predictions_region(d, region) ==
    LET c == calc_yhat(d, region) IN
    IF c.raised # NoError THEN Result(c.raised, <<>>)
    ELSE array_interval(Msg("predictions in %s region", region, -1, -1),
                        c.yhat, predictions_target(d), "warn")

predictions(d) ==
    Then(Result(NoError, <<Line("info", M("PREDICTIONS"), <<>>, "", <<>>)>>),
    Then(fit(d),
    Then(log_loss(d, "train"),
    Then(interval(M("train logloss"), d.pred.train_logloss, limits.train_logloss, "warn"),
    Then(logloss_by_era(d, "train"),
    Then(interval(M("train consistency"), d.pred.train_consistency,
                  limits.train_consistency, "warn"),
    Then(Result(calc_yhat(d, "validation").raised, <<>>),
    Then(log_loss(d, "validation"),
    Then(interval(M("validation logloss"), d.pred.valid_logloss,
                  limits.valid_logloss, "warn"),
    Then(logloss_by_era(d, "validation"),
    Then(interval(M("validation consistency"), d.pred.valid_consistency,
                  limits.valid_consistency, "warn"),
    Then(predictions_region(d, "test"),
         predictions_region(d, "live")))))))))))))

\* ------------------------------------------------------------------------
\* check (check.py 10-16): one step per check group

\* Each group runs to its end in one step: its lines reach the log in order;
\* on an exception check() is left at once, otherwise the next group is up.

Ids ==
    /\ pc = "ids"
    /\ LET r == ids(data) IN
         /\ log' = log \o r.lines
         /\ raised' = r.raised
         /\ pc' = IF r.raised = NoError THEN "eras" ELSE "raised"
    /\ UNCHANGED <<data, args>>

Eras ==
    /\ pc = "eras"
    /\ \E order \in eras_orders :
         LET r == eras(data, order) IN
         /\ log' = log \o r.lines
         /\ raised' = r.raised
         /\ pc' = IF r.raised = NoError THEN "regions" ELSE "raised"
    /\ UNCHANGED <<data, args>>

Regions ==
    /\ pc = "regions"
    /\ LET r == regions(data) IN
         /\ log' = log \o r.lines
         /\ raised' = r.raised
         /\ pc' = IF r.raised = NoError THEN "features" ELSE "raised"
    /\ UNCHANGED <<data, args>>

Features ==
    /\ pc = "features"
    /\ LET r == features(data) IN
         /\ log' = log \o r.lines
         /\ raised' = r.raised
         /\ pc' = IF r.raised = NoError THEN "labels" ELSE "raised"
    /\ UNCHANGED <<data, args>>

Labels ==
    /\ pc = "labels"
    /\ LET r == labels(data) IN
         /\ log' = log \o r.lines
         /\ raised' = r.raised
         /\ pc' = IF r.raised = NoError THEN "predictions" ELSE "raised"
    /\ UNCHANGED <<data, args>>

Predictions ==
    /\ pc = "predictions"
    /\ LET r == predictions(data) IN
         /\ log' = log \o r.lines
         /\ raised' = r.raised
         /\ pc' = IF r.raised = NoError THEN "done" ELSE "raised"
    /\ UNCHANGED <<data, args>>

\* ------------------------------------------------------------------------
\* The datasets check() is run on

\* n distinct eras of a test or live region: 'eraX' first
TailEras(n, other) ==
    IF n = 0 THEN {} ELSE IF n = 1 THEN {EraX} ELSE {EraX, other}

Rows(tr, va, te, li, ex) ==
    {<<"train", e>> : e \in 1..tr}
    \cup {<<"validation", 100 + e>> : e \in 1..va}
    \cup {<<"test", e>> : e \in TailEras(te, 200)}
    \cup {<<"live", e>> : e \in TailEras(li, 201)}
    \cup (IF ex THEN {<<"holdout", 300>>} ELSE {})

CleanRows ==
    Rows(eras_target.train, eras_target.validation, eras_target.test,
         eras_target.live, FALSE)

\* every era count at, one below and one above its target, and no row at all
EraRows ==
    {Rows(tr, va, te, li, FALSE) :
        tr \in {0} \cup {eras_target.train + i : i \in -1..1},
        va \in {0} \cup {eras_target.validation + i : i \in -1..1},
        te \in {eras_target.test + i : i \in -1..1},
        li \in {eras_target.live + i : i \in -1..1}}

\* every set of region labels: each expected region with all its eras or
\* without rows, with and without an unexpected region
RegionRows ==
    {Rows(tr, va, te, li, ex) :
        tr \in {0, eras_target.train},
        va \in {0, eras_target.validation},
        te \in {0, eras_target.test},
        li \in {0, eras_target.live},
        ex \in BOOLEAN}

CleanData ==
    [ID |-> [i \in 1..Cardinality(CleanRows) |-> i],
     rows |-> CleanRows,
     nonfinite |-> [r \in RegionLabels |-> 0],
     corr |-> <<2000, 7400>>,
     feat |-> << >>,
     lab |-> [bad |-> [r \in RegionLabels |-> 0], period |-> 2, eras |-> << >>],
     pred |-> [classes |-> {0, 1},
               train_logloss |-> 6920, train_consistency |-> 7000,
               valid_logloss |-> 6920, valid_consistency |-> 6000,
               yhat_train |-> <<4000, 6000>>,
               yhat |-> [validation |-> <<5000>>, test |-> <<5000>>,
                         live |-> <<5000>>]]]

\* d with the rows R: a region without rows has no labels and no predictions
WithRows(d, R) ==
    LET has(region) == \E p \in R : p[1] = region IN
    [d EXCEPT
       !.rows = R,
       !.pred.classes = IF has("train") THEN @ ELSE {},
       !.pred.yhat_train = IF has("train") THEN @ ELSE << >>,
       !.pred.yhat = [r \in DOMAIN @ |-> IF has(r) THEN @[r] ELSE << >>]]

\* d with one row per (region, era) pair, each with an identifier of its own,
\* and then the rows with the identifiers `tail`; no row when there is no pair
WithTail(d, tail) ==
    [d EXCEPT !.ID = IF d.rows = {} THEN << >>
                     ELSE [i \in 1..Cardinality(d.rows) |-> i] \o tail]

\* identifiers of further rows: 1 is taken already, 1000 is not
IDTails == UNION {[1..n -> {1, 1000}] : n \in 0..MaxRows}

IdFamily ==
    {WithTail(WithRows(CleanData, R), s) :
        s \in IDTails,
        R \in {CleanRows, Rows(eras_target.train - 1, 0, 1, 2, TRUE)}}

StructFamily ==
    {WithTail(WithRows(CleanData, R), << >>) : R \in EraRows}
    \cup {WithTail(WithRows(CleanData, R), s) : R \in RegionRows, s \in {<< >>, <<1>>}}

\* the values at the two ends of a bound and just outside them
Around(limit) == {limit[1] - 1, limit[1], limit[2], limit[2] + 1}

\* one statistic of a block at the ends of its bound and just outside
FeatBlocks ==
    {[CleanFeat EXCEPT !.x = v] : v \in {<<-1, 5000>>, <<5000, 10001>>, <<5000>>}}
    \cup {[CleanFeat EXCEPT !.mean = v] : v \in Around(limits.feat_mean)}
    \cup {[CleanFeat EXCEPT !.std = v] : v \in Around(limits.feat_std)}
    \cup {[CleanFeat EXCEPT !.skew = v] : v \in Around(limits.feat_skew)}
    \cup {[CleanFeat EXCEPT !.kurt = v] : v \in Around(limits.feat_kurt)}

NaNFeat == [x |-> <<NaN, 5000>>, mean |-> NaN, std |-> NaN, skew |-> NaN, kurt |-> NaN]

FeatFamily ==
    {[CleanData EXCEPT !.corr = <<a, b>>] :
        a \in Around(limits.corr_mean), b \in Around(limits.corr_max)}
    \cup {[CleanData EXCEPT !.feat = <<e, f>> :> b] :
            e \in {1, EraX}, f \in 1..NumFeatures, b \in FeatBlocks}
    \cup {[CleanData EXCEPT !.nonfinite[r] = n, !.corr = <<NaN, NaN>>,
                            !.feat = <<(CHOOSE e \in ErasIn(CleanData, r) : TRUE), 1>>
                                     :> NaNFeat] :
            r \in ExpectedRegions, n \in 1..2}

LabelFamily ==
    {[CleanData EXCEPT !.lab.bad[r] = n, !.lab.period = p] :
        r \in ExpectedRegions, n \in 0..2, p \in 1..3}
    \cup {[CleanData EXCEPT !.lab.eras = e :> [LabelOf(CleanData, e) EXCEPT !.mean = v]] :
            e \in {1, 2, 101, EraX},
            v \in Around(limits.label_mean) \cup {NaN, 0, 10000}}
    \cup {[CleanData EXCEPT !.lab.eras = 1 :> [LabelOf(CleanData, 1) EXCEPT !.size = v]] :
            v \in Around(limits.label_num)}
    \cup {[CleanData EXCEPT !.lab.eras = EraX :> [LabelOf(CleanData, EraX) EXCEPT !.size = v]] :
            v \in Around(limits.label_num_eraX) \cup {6000}}

PredFamily ==
    {WithTail([CleanData EXCEPT !.pred.classes = c], s) :
        c \in SUBSET {0, 1}, s \in {<< >>, <<1>>}}
    \cup {[CleanData EXCEPT !.pred.train_logloss = a, !.pred.train_consistency = b] :
            a \in Around(limits.train_logloss), b \in Around(limits.train_consistency)}
    \cup {[CleanData EXCEPT !.pred.valid_logloss = a, !.pred.valid_consistency = b] :
            a \in Around(limits.valid_logloss), b \in Around(limits.valid_consistency)}
    \cup {[CleanData EXCEPT !.pred.yhat.test = a, !.pred.yhat.live = b] :
            a \in {<<3960, 6060>>, <<3959>>, <<6061>>},
            b \in {<<3960, 6060>>, <<3959>>, <<6061>>}}
    \cup {[CleanData EXCEPT !.pred.yhat_train = <<4001, 5999>>, !.pred.yhat.test = a] :
            a \in {<<3960>>, <<3961>>, <<6058>>, <<6059>>}}
    \cup {[CleanData EXCEPT !.pred.yhat_train = <<2700, 4100>>,
                             !.pred.yhat.live = <<3000>>, !.pred.yhat.test = a] :
            a \in {<<2673>>, <<2674>>, <<4140>>, <<4141>>}}

\* every group has something to report
DirtyData ==
    [WithTail(WithRows(CleanData,
                       Rows(eras_target.train + 1, eras_target.validation - 1, 2, 2, TRUE)),
              <<1, 1>>)
       EXCEPT !.corr = <<1799, 7601>>,
              !.feat = <<1, 1>> :> [CleanFeat EXCEPT !.mean = 5511],
              !.lab = [bad |-> [r \in RegionLabels |-> IF r = "live" THEN 1 ELSE 0],
                       period |-> 1,
                       eras |-> 1 :> [mean |-> 5011, size |-> 6801]],
              !.pred.train_logloss = 6931,
              !.pred.valid_consistency = 4999,
              !.pred.yhat.test = <<3959>>]

Datasets ==
    IdFamily \cup StructFamily \cup FeatFamily \cup LabelFamily \cup PredFamily
    \cup {[DirtyData EXCEPT !.pred.classes = c] : c \in {{0, 1}, {1}}}

NoArgs == [fn |-> "check"]

Init ==
    /\ data \in Datasets
    /\ args = NoArgs
    /\ pc = "ids"
    /\ log = << >>
    /\ raised = NoError

Next == Ids \/ Eras \/ Regions \/ Features \/ Labels \/ Predictions

Spec == Init /\ [][Next]_vars

\* ------------------------------------------------------------------------
\* PrimSpec: one direct call of an assertion primitive

Levels == {"info", "warn", "error", "critical"}

PrimLevels == Levels \cup {"debug"}

PrimValues == {-1, 0, 1, 2, 3, NaN}

PrimLimits == {<<0, 2>>, <<1, 1>>}

PrimArrays == UNION {[1..n -> {-1, 0, 2, 3, NaN}] : n \in 0..MaxArr}

PrimOps == DOMAIN oppo \cup {"=>"}

Call(fn, value, arr, limit, op, target, level) ==
    [fn |-> fn, message |-> M("m"), value |-> value, arr |-> arr, limit |-> limit,
     op |-> op, target |-> target, level |-> level]

PrimCalls ==
    {Call("interval", v, << >>, l, "", 0, lv) :
        v \in PrimValues, l \in PrimLimits, lv \in PrimLevels}
    \cup {Call("array_interval", 0, a, l, "", 0, lv) :
            a \in PrimArrays, l \in PrimLimits, lv \in PrimLevels}
    \cup {Call("_assert", v, << >>, <<0, 0>>, o, 1, lv) :
            v \in {0, 1, 2}, o \in PrimOps, lv \in PrimLevels}

\* no dataset is involved
NoData == [ID |-> << >>, rows |-> {}]

PrimInit ==
    /\ args \in PrimCalls
    /\ data = NoData
    /\ pc = "call"
    /\ log = << >>
    /\ raised = NoError

CallInterval ==
    /\ pc = "call"
    /\ args.fn = "interval"
    /\ LET r == interval(args.message, args.value, args.limit, args.level) IN
         /\ log' = log \o r.lines
         /\ raised' = r.raised
         /\ pc' = IF r.raised = NoError THEN "returned" ELSE "raised"
    /\ UNCHANGED <<data, args>>

CallArrayInterval ==
    /\ pc = "call"
    /\ args.fn = "array_interval"
    /\ LET r == array_interval(args.message, args.arr, args.limit, args.level) IN
         /\ log' = log \o r.lines
         /\ raised' = r.raised
         /\ pc' = IF r.raised = NoError THEN "returned" ELSE "raised"
    /\ UNCHANGED <<data, args>>

CallAssert ==
    /\ pc = "call"
    /\ args.fn = "_assert"
    /\ LET r == _assert(args.message, args.value, args.op, args.target, args.level) IN
         /\ log' = log \o r.lines
         /\ raised' = r.raised
         /\ pc' = IF r.raised = NoError THEN "returned" ELSE "raised"
    /\ UNCHANGED <<data, args>>

PrimNext == CallInterval \/ CallArrayInterval \/ CallAssert

PrimSpec == PrimInit /\ [][PrimNext]_vars

\* ========================================================================
\* Properties
\* ========================================================================

\* the call of PrimSpec is over
Called == pc \in {"returned", "raised"}

\* ------------------------------------------------------------------------
\* C4 (PrimSpec), as claimed: a call of interval, array_interval or _assert
\* with a severity level outside {info, warn, error, critical} raises, for
\* every value and bound, instead of logging or returning silently.
\* Refuted by the code: the level is looked up only after the check failed.
C4_BadLevelAlwaysRaises ==
    (Called /\ args.level \notin Levels) => raised # NoError

\* ------------------------------------------------------------------------
\* C10 (PrimSpec), as claimed: for every operator of the table oppo, _assert
\* returns without raising and logs exactly one line iff `value op target`
\* is false.  Refuted by the code for '>='.
Holds(value, op, target) ==
    CASE op = "==" -> value = target
      [] op = "!=" -> value # target
      [] op = ">"  -> value > target
      [] op = "<=" -> value <= target
      [] op = "<"  -> value < target
      [] op = ">=" -> value >= target

C10_AssertEveryOperator ==
    (Called /\ args.fn = "_assert" /\ args.op \in DOMAIN oppo /\ args.level \in Levels)
    => /\ raised = NoError
       /\ Len(log) = IF Holds(args.value, args.op, args.target) THEN 0 ELSE 1

\* ------------------------------------------------------------------------
\* C5 (PrimSpec): with a recognised level, interval logs exactly one line
\* when value < low or value > high and nothing otherwise, array_interval
\* (of a non-empty array) exactly one line when min(arr) < low or
\* max(arr) > high and nothing otherwise; a value, minimum or maximum equal
\* to low or high passes; neither raises.
OutOfBound(v, limit) == v # NaN /\ (v < limit[1] \/ v > limit[2])

\* min(arr) < low or max(arr) > high, element by element: a NaN element makes
\* both the minimum and the maximum NaN
ArrOutOfBound(arr, limit) ==
    /\ \A i \in DOMAIN arr : arr[i] # NaN
    /\ \/ \E i \in DOMAIN arr : arr[i] < limit[1]
       \/ \E i \in DOMAIN arr : arr[i] > limit[2]

C5_IntervalOneLineIffViolated ==
    (Called /\ args.level \in Levels) =>
       /\ args.fn = "interval" =>
             /\ raised = NoError
             /\ Len(log) = IF OutOfBound(args.value, args.limit) THEN 1 ELSE 0
             /\ \A i \in DOMAIN log :
                   log[i].level = args.level /\ log[i].value = <<args.value>>
       /\ (args.fn = "array_interval" /\ args.arr # << >>) =>
             /\ raised = NoError
             /\ Len(log) = IF ArrOutOfBound(args.arr, args.limit) THEN 1 ELSE 0
             /\ \A i \in DOMAIN log : log[i].level = args.level

\* a maximum exactly at `high` and a minimum exactly at `low` passed
C5_Witness ==
    /\ pc = "returned"
    /\ args.fn = "array_interval"
    /\ Len(args.arr) = 2
    /\ args.arr[1] = args.limit[1]
    /\ args.arr[2] = args.limit[2]
    /\ args.arr[1] < args.arr[2]
    /\ log = << >>

\* ------------------------------------------------------------------------
\* Vocabulary for the log of a run of check()

GroupNames == <<"IDS", "ERAS", "REGIONS", "FEATURES", "LABELS", "PREDICTIONS">>

IsMarker(l) == l.level = "info" /\ \E g \in DOMAIN GroupNames : l.message.fmt = GroupNames[g]

\* the group a line belongs to, by its text
FmtGroup(fmt) ==
    CASE fmt \in {"IDS", "duplicate ids"} -> 1
      [] fmt \in {"ERAS", "number of eras in %s"} -> 2
      [] fmt \in {"REGIONS", "extra regions found: %s", "missing regions: %s"} -> 3
      [] fmt \in {"FEATURES", "nonfinite feature values", "mean abs corr of features",
                  "max  abs corr of features", "range of feature %2d in %s",
                  "mean  of feature %2d in %s", "std   of feature %2d in %s",
                  "skewn of feature %2d in %s", "kurto of feature %2d in %s"} -> 4
      [] fmt \in {"LABELS", "number of non 0, 1 labels", "mean of labels in %s",
                  "num  of labels in %s",
                  "fraction of eras with label mean less than half"} -> 5
      [] fmt \in {"PREDICTIONS", "train logloss", "train consistency",
                  "validation logloss", "validation consistency",
                  "predictions in %s region"} -> 6
      [] OTHER -> 0

\* the number of groups that have begun
GroupsBegun ==
    CASE pc = "ids" -> 0
      [] pc = "eras" -> 1
      [] pc = "regions" -> 2
      [] pc = "features" -> 3
      [] pc = "labels" -> 4
      [] pc = "predictions" -> 5
      [] OTHER -> 6

Finished == pc \in {"done", "raised"}

\* the number of distinct eras among the rows of a region
DistinctEras(d, region) == Cardinality({p \in d.rows : p[1] = region})

ObservedRegions(d) == {p[1] : p \in d.rows}

\* the classifier cannot be fit: no train row, a non-finite train feature or
\* label, or fewer than two label classes in the train region
CannotFit(d) ==
    \/ "train" \notin ObservedRegions(d)
    \/ d.nonfinite["train"] > 0
    \/ \E p \in d.rows : p[1] = "train" /\ LabelOf(d, p[2]).mean = NaN
    \/ Cardinality(d.pred.classes) < 2

\* ------------------------------------------------------------------------
\* C1 (Spec), as claimed: whenever the classifier fits (every level used by
\* check() is the recognised default 'warn'), check() runs all six groups and
\* completes, whatever the dataset and however many checks fail.
\* Refuted by the code: a dataset without validation, test or live rows,
\* with a non-finite feature outside the train region, with a label besides
\* 0 and 1 or a one-class era in the train or validation region, or with a
\* non-finite validation label, makes predictions() raise after the fit.
C1_CompletesWhenClassifierFits ==
    ~CannotFit(data) => pc # "raised"

\* ------------------------------------------------------------------------
\* C2 (Spec): the markers IDS, ERAS, REGIONS, FEATURES, LABELS, PREDICTIONS
\* enter the log in this order, each once, one per group begun (all six in
\* every finished run), and every other line lies after the marker of its
\* own group and before the marker of the next.
C2_GroupsInOrder ==
    LET mk == SelectSeq(log, IsMarker) IN
    /\ Len(mk) = GroupsBegun
    /\ \A i \in DOMAIN mk : mk[i].message.fmt = GroupNames[i]
    /\ \A i \in DOMAIN log :
          FmtGroup(log[i].message.fmt) = Cardinality({j \in 1..i : IsMarker(log[j])})

\* a finished run in which at least four groups logged assertion lines
C2_Witness ==
    /\ pc = "done"
    /\ Cardinality({FmtGroup(log[i].message.fmt) :
                      i \in {j \in DOMAIN log : ~IsMarker(log[j])}}) >= 4

\* ------------------------------------------------------------------------
\* C3 (Spec): on a clean dataset check() completes and the log is exactly
\* the six marker lines, all at level info.
Inside(v, limit) == v # NaN /\ limit[1] <= v /\ v <= limit[2]

Clean(d) ==
    /\ ObservedRegions(d) = ExpectedRegions
    /\ \A r \in ExpectedRegions : DistinctEras(d, r) = eras_target[r]
    /\ \A r \in DOMAIN d.nonfinite : d.nonfinite[r] = 0
    /\ Inside(d.corr[1], limits.corr_mean)
    /\ Inside(d.corr[2], limits.corr_max)
    /\ \A e \in ErasOf(d), f \in 1..NumFeatures :
          LET b == FeatOf(d, e, f) IN
          /\ \A i \in DOMAIN b.x : Inside(b.x[i], limits.feat_range)
          /\ Inside(b.mean, limits.feat_mean)
          /\ Inside(b.std, limits.feat_std)
          /\ Inside(b.skew, limits.feat_skew)
          /\ Inside(b.kurt, limits.feat_kurt)
    /\ \A r \in DOMAIN d.lab.bad : d.lab.bad[r] = 0
    /\ \A e \in ErasOf(d) :
          /\ Inside(LabelOf(d, e).mean, limits.label_mean)
          /\ Inside(LabelOf(d, e).size,
                    IF e = EraX THEN limits.label_num_eraX ELSE limits.label_num)
    /\ Inside(label_bias(d), limits.label_bias)
    /\ ~CannotFit(d)
    /\ Inside(d.pred.train_logloss, limits.train_logloss)
    /\ Inside(d.pred.train_consistency, limits.train_consistency)
    /\ Inside(d.pred.valid_logloss, limits.valid_logloss)
    /\ Inside(d.pred.valid_consistency, limits.valid_consistency)
    /\ \A r \in {"test", "live"} : \A i \in DOMAIN d.pred.yhat[r] :
          Inside(d.pred.yhat[r][i], predictions_target(d))
    /\ \A i, j \in DOMAIN d.ID : i # j => d.ID[i] # d.ID[j]

C3_CleanOnlyMarkers ==
    (Finished /\ Clean(data)) =>
       /\ pc = "done"
       /\ raised = NoError
       /\ Len(log) = Len(GroupNames)
       /\ \A i \in DOMAIN log :
             log[i].level = "info" /\ log[i].message.fmt = GroupNames[i]

\* a clean dataset with statistics exactly at the ends of their bounds
C3_Witness ==
    /\ pc = "done"
    /\ Clean(data)
    /\ data.corr = <<limits.corr_mean[1], limits.corr_max[2]>>

\* ------------------------------------------------------------------------
\* C6 (Spec): when ids() has returned, the log holds the IDS marker and, if
\* k > 0 rows repeat an identifier seen before, exactly one warning, which
\* carries the value k; without duplicates it holds the marker alone.
NumDup(ID) == Cardinality({i \in DOMAIN ID : \E j \in 1..(i - 1) : ID[j] = ID[i]})

C6_DuplicateIds ==
    pc = "eras" =>
       LET k == NumDup(data.ID) IN
       /\ Len(log) = IF k > 0 THEN 2 ELSE 1
       /\ log[1].level = "info" /\ log[1].message.fmt = "IDS"
       /\ k > 0 => /\ log[2].level = "warn"
                   /\ log[2].message.fmt = "duplicate ids"
                   /\ log[2].value = <<k>>

C6_Witness ==
    /\ pc = "eras"
    /\ NumDup(data.ID) = 2
    /\ Len(log) = 2
    /\ log[2].value = <<2>>

\* ------------------------------------------------------------------------
\* C7 (Spec): when eras() has returned it has logged, for each of the four
\* regions, one warning naming the region if the number of distinct eras of
\* the region differs from the expected one and none if it matches, and no
\* other line but the ERAS marker.
ErasWarnings(region) ==
    {i \in DOMAIN log : /\ log[i].message.fmt = "number of eras in %s"
                        /\ log[i].message.region = region
                        /\ log[i].level = "warn"}

C7_ErasWarnings ==
    pc = "regions" =>
       /\ \A r \in ExpectedRegions :
             Cardinality(ErasWarnings(r)) =
                IF DistinctEras(data, r) # eras_target[r] THEN 1 ELSE 0
       /\ Cardinality({i \in DOMAIN log : FmtGroup(log[i].message.fmt) = 2}) =
             1 + Cardinality({r \in ExpectedRegions :
                                DistinctEras(data, r) # eras_target[r]})

\* the train region is one era short, the other regions match
C7_Witness ==
    /\ pc = "regions"
    /\ DistinctEras(data, "train") = eras_target.train - 1
    /\ \A r \in ExpectedRegions \ {"train"} : DistinctEras(data, r) = eras_target[r]
    /\ Cardinality(ErasWarnings("train")) = 1
    /\ Cardinality({i \in DOMAIN log : FmtGroup(log[i].message.fmt) = 2}) = 2

\* ------------------------------------------------------------------------
\* C8 (Spec): when the classifier cannot be fit, the run ends with the
\* exception: the log ends with the PREDICTIONS marker (no prediction
\* assertion line follows it) and before it holds every line of ids, eras,
\* regions, features and labels.
C8_FitFailureAborts ==
    (Finished /\ CannotFit(data)) =>
       /\ pc = "raised"
       /\ raised # NoError
       /\ Len(log) >= Len(GroupNames)
       /\ log[Len(log)].message.fmt = "PREDICTIONS"
       /\ \E order \in eras_orders :
             SubSeq(log, 1, Len(log) - 1) =
                ids(data).lines \o eras(data, order).lines \o regions(data).lines
                \o features(data).lines \o labels(data).lines

\* a single-class train region in a dataset the earlier groups warned about
C8_Witness ==
    /\ pc = "raised"
    /\ data.pred.classes = {1}
    /\ "train" \in ObservedRegions(data)
    /\ Cardinality({FmtGroup(log[i].message.fmt) :
                      i \in {j \in DOMAIN log : ~IsMarker(log[j])}}) = 5

\* ------------------------------------------------------------------------
\* C9 (Spec): regions() returns for every set of region labels (no
\* exception is pending up to the FEATURES group, which every aborted run
\* has begun); it has logged 'extra regions found' once iff a label outside
\* the expected set is observed, 'missing regions' once iff an expected
\* label is not observed, each with the labels concerned, and nothing else
\* but its marker.
RegionsWarnings(fmt) ==
    {i \in DOMAIN log : log[i].message.fmt = fmt /\ log[i].level = "warn"}

C9_RegionsOnlyLogs ==
    /\ pc \in {"ids", "eras", "regions", "features"} => raised = NoError
    /\ pc = "raised" => \E i \in DOMAIN log : log[i].message.fmt = "FEATURES"
    /\ pc = "features" =>
          LET extra == ObservedRegions(data) \ ExpectedRegions
              missing == ExpectedRegions \ ObservedRegions(data)
          IN /\ Cardinality(RegionsWarnings("extra regions found: %s")) =
                   IF extra # {} THEN 1 ELSE 0
             /\ Cardinality(RegionsWarnings("missing regions: %s")) =
                   IF missing # {} THEN 1 ELSE 0
             /\ \A i \in RegionsWarnings("extra regions found: %s") :
                   log[i].message.diff = extra
             /\ \A i \in RegionsWarnings("missing regions: %s") :
                   log[i].message.diff = missing
             /\ Cardinality({i \in DOMAIN log : FmtGroup(log[i].message.fmt) = 3}) =
                   1 + (IF extra # {} THEN 1 ELSE 0) + (IF missing # {} THEN 1 ELSE 0)

\* an unexpected label is observed and an expected one is not: two warnings
C9_Witness ==
    /\ pc = "features"
    /\ "holdout" \in ObservedRegions(data)
    /\ "validation" \notin ObservedRegions(data)
    /\ Cardinality(RegionsWarnings("extra regions found: %s")) = 1
    /\ Cardinality(RegionsWarnings("missing regions: %s")) = 1

====
